---- MODULE Spec2Model ----
(***************************************************************************)
(* Incremental synchronizer of teams_chats_export.py: one conversation,    *)
(* its remote message feed, the paginated fetch cursor, the per-message    *)
(* save / update / skip decision and hosted-content download (Spec,        *)
(* SpecConverge); the hosted-content filename (SpecFilename); and          *)
(* generate_html over an archive of several conversations (SpecRender).    *)
(*                                                                         *)
(* Optional values (a file that may not exist, a response that may be      *)
(* missing, Python's None) are sequences of length 0 or 1.                 *)
(***************************************************************************)
EXTENDS Integers, Sequences, FiniteSets, TLC

\* ---------------------------------------------------------------- bounds
\* messages the remote conversation ever holds (ids 1..MaxMsgs)
MaxMsgs == 2
\* records per page of the feed (the source asks for top=50)
PageSize == 1
\* download runs
MaxRuns == 2
\* page requests answered with no response, per run
MaxNoResponse == 1
\* changes of the remote conversation (posts, edits, deletions)
MaxEnvSteps == 3
MaxIdLen == 240       \* longest hosted-content id a filename is built from
MaxChats == 3         \* conversations in the archive that is rendered

\* ---------------------------------------------------------------- values
None == <<>>
Some(x) == <<x>>
Null == 0
NoLink == -1
CodeSnippet == "application/vnd.microsoft.card.codesnippet"
GraphPrefix == "https://graph.microsoft.com/v1.0/chats/"

MsgIds == 1..MaxMsgs
\* the timestamps a lastModifiedDateTime and a lastEditedDateTime (null until the
\* first edit) take; the code only compares them for equality
ModifiedTimes == {1, 2}
EditedTimes == {Null, 1}
H1 == << "h", "1" >>
H2 == << "h", "2" >>
HostedIds == { H1, H2 }

\* a url: what it starts with, then its path segments (url.split("/"))
HostedUrl(prefix, hc) == [prefix |-> prefix, segs |-> <<"hostedContents", hc, "$value">>]

\* the attachments and body a message can carry
RichContent ==
    [attachments |-> << [id |-> "a1", contentType |-> CodeSnippet,
                         content |-> [codeSnippetUrl |-> HostedUrl(GraphPrefix, H1)]],
                        [id |-> "a2", contentType |-> "reference",
                         content |-> [codeSnippetUrl |-> HostedUrl("", H2)]] >>,
     body |-> Some([contentType |-> "html",
                    refs |-> << "a1", "a2" >>,
                    srcs |-> << HostedUrl(GraphPrefix, H2), HostedUrl("https://example.org/", H1) >>])]

PlainContent ==
    [attachments |-> <<>>,
     body |-> Some([contentType |-> "text", refs |-> <<>>,
                    srcs |-> << HostedUrl(GraphPrefix, H1) >>])]

Contents == { RichContent, PlainContent }

VARIABLES
    remote,      \* the conversation's messages on the remote side, newest first
    envSteps,    \* changes of the remote side so far
    msgfile,     \* msg_<id>.json: None or Some(record)
    blob,        \* hosted_content_<msgId>_<hcId>: None or Some(bytes)
    pc,          \* "idle", "scan" (in the async for), "resolve" (in save_msg)
    outcome,     \* how the last run ended: "none", "fast", "exhausted", "stopped", "aborted"
    runs,        \* download runs started
    force,       \* the run's force flag
    chat,        \* the run's chat record (lastMessagePreview)
    results,     \* fetch_all_for_request: results (None or Some(page))
    getable_,    \* fetch_all_for_request: getable_ (None or Some(skip offset))
    pending,     \* records of the current page not yet yielded
    noresp,      \* requests of this run answered with no response
    requests,    \* offsets requested in this run, in order
    responses,   \* what each request returned (None or Some(page))
    yielded,     \* records the cursor yielded in this run
    decided,     \* the branch taken for each: "saved", "updated" or "unchanged"
    msg,         \* save_msg: the message being saved (None outside save_msg)
    todo,        \* hosted contents of msg still to download
    kind,        \* which counter the save in progress increments
    counts,      \* count_saved, count_updated, count_unchanged
    writes,      \* writes of a msg_<id>.json in this run
    result,      \* download_hosted_content: result of the last call (None before)
    fetches,     \* remote hosted-content fetches issued per key, all runs
    name_args,     \* a message id and a hosted-content id, as character sequences
    name_download, \* download_hosted_content: filename (None before the call)
    name_render,   \* render_hosted_content / get_image: filename (None before the call)
    files,       \* generate_html: the output directory, path -> None or Some(content)
    rpc,         \* render_all: "idle", "loop", "done" or "raised"
    chat_files,  \* render_all: snapshot files not yet processed, in sorted order
    all_chats,   \* render_all: all_chats
    written      \* paths written by this generate_html run, in order

nameVars == << name_args, name_download, name_render >>
renderVars == << files, rpc, chat_files, all_chats, written >>
downloadVars == << remote, envSteps, msgfile, blob, pc, outcome, runs, force, chat, results,
                   getable_, pending, noresp, requests, responses, yielded, decided, msg,
                   todo, kind, counts, writes, result, fetches >>

vars == << downloadVars, nameVars, renderVars >>

cursorVars == << results, getable_, pending, noresp, requests, responses >>
runVars == << pc, outcome, runs, force, chat, yielded, decided, msg, todo, kind, counts, writes, result >>
storeVars == << msgfile, blob, fetches >>
envVars == << remote, envSteps >>

\* ---------------------------------------------------------------- helpers
Min(a, b) == IF a < b THEN a ELSE b
Last(s) == s[Len(s)]

\* url.split("/")[-2]
SecondLast(url) == url.segs[Len(url.segs) - 1]

get_hosted_content_id(attachment) == SecondLast(attachment.content.codeSnippetUrl)

\* strings that are cut or compared are sequences of one-character strings
Digits == << "0", "1", "2", "3", "4", "5", "6", "7", "8", "9" >>

\* a message id, a number in this model, as the string the record carries
RECURSIVE Str(_)
Str(n) == IF n < 10 THEN << Digits[n + 1] >> ELSE Str(n \div 10) \o << Digits[(n % 10) + 1] >>

filename_size_limit == 255

\* s[from:to]
Slice(s, from, to) == SubSeq(s, from + 1, Min(to, Len(s)))

\* f"hosted_content_{msg_id}_{hosted_content_id}"
FullName(msg_id, hosted_content_id) ==
    << "h", "o", "s", "t", "e", "d", "_", "c", "o", "n", "t", "e", "n", "t", "_" >>
    \o msg_id \o << "_" >> \o hosted_content_id

\* the whole name is kept
get_hosted_content_filename_whole(msg_id, hosted_content_id) ==
    FullName(msg_id, hosted_content_id)

get_hosted_content_filename(msg_id, hosted_content_id) ==
    Slice(FullName(msg_id, hosted_content_id), 0, filename_size_limit)

HostedKeys == { get_hosted_content_filename(Str(m), h) : m \in MsgIds, h \in HostedIds }

\* os.path.exists(path) for msg_<id>.json
exists(id) == msgfile[id] # None

RECURSIVE SnippetIds(_)
SnippetIds(atts) ==
    IF atts = <<>> THEN <<>>
    ELSE (IF Head(atts).contentType = CodeSnippet
          THEN << get_hosted_content_id(Head(atts)) >> ELSE <<>>) \o SnippetIds(Tail(atts))

RECURSIVE SrcIds(_)
SrcIds(urls) ==
    IF urls = <<>> THEN <<>>
    ELSE (IF Head(urls).prefix = GraphPrefix
          THEN << SecondLast(Head(urls)) >> ELSE <<>>) \o SrcIds(Tail(urls))

\* the hosted-content ids download_hosted_content_in_msg downloads, in order
download_hosted_content_in_msg(m) ==
    SnippetIds(m.attachments)
    \o (IF m.body # None /\ m.body[1].contentType = "html" THEN SrcIds(m.body[1].srcs) ELSE <<>>)

\* the attachments of m a placeholder with id r selects
Matching(m, r) == SelectSeq(m.attachments, LAMBDA a : a.id = r)

\* the hosted contents render_message_body opens for message m: the code snippets
\* its placeholders select, and every src of the body at the remote endpoint
RenderReads(m) ==
    IF m.body = None THEN {}
    ELSE LET b == m.body[1] IN
         { get_hosted_content_filename(Str(m.id), get_hosted_content_id(Matching(m, b.refs[i])[1])) :
             i \in { j \in 1..Len(b.refs) :
                       /\ Matching(m, b.refs[j]) # <<>>
                       /\ Matching(m, b.refs[j])[1].contentType = CodeSnippet } }
         \cup { get_hosted_content_filename(Str(m.id), SecondLast(b.srcs[i])) :
                  i \in { j \in 1..Len(b.srcs) : b.srcs[j].prefix = GraphPrefix } }

\* ---------------------------------------------------------------- remote side
NewMessage(id, c) ==
    [id |-> id, lastModifiedDateTime |-> 1, lastEditedDateTime |-> Null,
     deletedDateTime |-> Null, attachments |-> c.attachments, body |-> c.body]

\* a new message appears at the head of the feed, at any time, also during a scan
Post ==
    /\ envSteps < MaxEnvSteps
    /\ Len(remote) < MaxMsgs
    /\ \E c \in Contents : remote' = << NewMessage(Len(remote) + 1, c) >> \o remote
    /\ envSteps' = envSteps + 1
    /\ UNCHANGED << storeVars, runVars, cursorVars >>
    /\ UNCHANGED << nameVars, renderVars >>

\* a message's revision markers change. A fetched page is a snapshot, so a change
\* made during a scan is seen like one made before or after the run: it is taken
\* between runs
Revise ==
    /\ envSteps < MaxEnvSteps
    /\ pc = "idle"
    /\ \E i \in 1..Len(remote), m \in ModifiedTimes, e \in EditedTimes :
         /\ << m, e >> # << remote[i].lastModifiedDateTime, remote[i].lastEditedDateTime >>
         /\ remote' = [remote EXCEPT ![i].lastModifiedDateTime = m, ![i].lastEditedDateTime = e]
    /\ envSteps' = envSteps + 1
    /\ UNCHANGED << storeVars, runVars, cursorVars >>
    /\ UNCHANGED << nameVars, renderVars >>

\* a message is deleted on the remote side: the feed keeps it, tombstoned
Delete ==
    /\ envSteps < MaxEnvSteps
    /\ pc = "idle"
    /\ \E i \in 1..Len(remote) :
         /\ remote[i].deletedDateTime = Null
         /\ remote' = [remote EXCEPT ![i].deletedDateTime = 1]
    /\ envSteps' = envSteps + 1
    /\ UNCHANGED << storeVars, runVars, cursorVars >>
    /\ UNCHANGED << nameVars, renderVars >>

\* the page the remote side returns for skip offset k
ServePage(k) ==
    [value |-> SubSeq(remote, k + 1, Min(k + PageSize, Len(remote))),
     nextLink |-> IF k + PageSize < Len(remote) THEN k + PageSize ELSE NoLink]

\* ---------------------------------------------------------------- download_messages
NoCounts == [saved |-> 0, updated |-> 0, unchanged |-> 0]

\* chat["lastMessagePreview"]: null, or the preview of the newest message
LastMessageIds == { None } \cup (IF remote = <<>> THEN {} ELSE { Some(Head(remote).id) })

\* the record of the last message is not looked for
FastPath_unchecked(f, c) == ~ (f \/ c.lastMessagePreview = None)

\* the force flag is not looked at
FastPath_unforced(f, c) == ~ (c.lastMessagePreview = None \/ ~ exists(c.lastMessagePreview[1]))

\* not (force or not last_msg_id or not last_msg_exists)
FastPath(f, c) == ~ (f \/ c.lastMessagePreview = None \/ ~ exists(c.lastMessagePreview[1]))

\* one call, with force flag f and last message id l in the chat record
StartRun(f, l) ==
    /\ pc = "idle"
    /\ runs < MaxRuns
    /\ runs' = runs + 1
    /\ force' = f
    /\ chat' = [lastMessagePreview |-> l]
    /\ IF FastPath(f, chat')
       THEN /\ pc' = "idle"
            /\ outcome' = "fast"
            /\ getable_' = None
       ELSE /\ pc' = "scan"
            /\ outcome' = "none"
            /\ getable_' = Some(0)
    /\ results' = None
    /\ pending' = <<>>
    /\ noresp' = 0
    /\ requests' = <<>>
    /\ responses' = <<>>
    /\ yielded' = <<>>
    /\ decided' = <<>>
    /\ msg' = None
    /\ todo' = <<>>
    /\ kind' = "none"
    /\ counts' = NoCounts
    /\ writes' = 0
    /\ result' = None
    /\ UNCHANGED << storeVars, envVars >>
    /\ UNCHANGED << nameVars, renderVars >>

download_messages == \E f \in BOOLEAN, l \in LastMessageIds : StartRun(f, l)

\* an unforced call whose chat record names the newest message of the feed
download_newest ==
    StartRun(FALSE, IF remote = <<>> THEN None ELSE Some(Head(remote).id))

\* ---------------------------------------------------------------- fetch_all_for_request
\* the next-page link is never followed
NextGetable_first == IF results # None THEN None ELSE getable_

\* the request the loop head settles on: while getable_ / if results / nextLink
NextGetable ==
    IF results # None
    THEN (IF results[1].nextLink # NoLink THEN Some(results[1].nextLink) ELSE None)
    ELSE getable_

AtLoopHead == pc = "scan" /\ pending = <<>> /\ getable_ # None

FetchPage ==
    /\ AtLoopHead
    /\ NextGetable # None
    /\ LET page == ServePage(NextGetable[1]) IN
         /\ getable_' = NextGetable
         /\ requests' = Append(requests, NextGetable[1])
         /\ responses' = Append(responses, Some(page))
         /\ results' = Some(page)
         /\ pending' = page.value
    /\ UNCHANGED << noresp, storeVars, envVars, runVars >>
    /\ UNCHANGED << nameVars, renderVars >>

FetchNoResponse ==
    /\ AtLoopHead
    /\ NextGetable # None
    /\ noresp < MaxNoResponse
    /\ noresp' = noresp + 1
    /\ getable_' = NextGetable
    /\ requests' = Append(requests, NextGetable[1])
    /\ responses' = Append(responses, None)
    /\ UNCHANGED << results, pending, storeVars, envVars, runVars >>
    /\ UNCHANGED << nameVars, renderVars >>

Exhausted ==
    /\ AtLoopHead
    /\ NextGetable = None
    /\ getable_' = None
    /\ pc' = "idle"
    /\ outcome' = "exhausted"
    /\ UNCHANGED << results, pending, noresp, requests, responses, storeVars, envVars,
                    runs, force, chat, yielded, decided, msg, todo, kind, counts, writes,
                    result >>
    /\ UNCHANGED << nameVars, renderVars >>

\* ---------------------------------------------------------------- the loop body
Markers(m) == << m.lastModifiedDateTime, m.lastEditedDateTime >>

\* only lastModifiedDateTime is compared
Changed_modified_only(existing_msg, m) ==
    existing_msg.lastModifiedDateTime # m.lastModifiedDateTime

\* both markers must differ
Changed_both(existing_msg, m) ==
    /\ existing_msg.lastModifiedDateTime # m.lastModifiedDateTime
    /\ existing_msg.lastEditedDateTime # m.lastEditedDateTime

Changed(existing_msg, m) ==
    \/ existing_msg.lastModifiedDateTime # m.lastModifiedDateTime
    \/ existing_msg.lastEditedDateTime # m.lastEditedDateTime

Bump(c, k) == [c EXCEPT ![k] = @ + 1]

\* save_msg up to its first download: the record is written, the downloads are queued
save_msg(m, k) ==
    /\ decided' = Append(decided, k)
    /\ msgfile' = [msgfile EXCEPT ![m.id] = Some(m)]
    /\ writes' = writes + 1
    /\ IF download_hosted_content_in_msg(m) = <<>>
       THEN /\ counts' = Bump(counts, k)
            /\ UNCHANGED << pc, msg, todo, kind >>
       ELSE /\ pc' = "resolve"
            /\ msg' = Some(m)
            /\ todo' = download_hosted_content_in_msg(m)
            /\ kind' = k
            /\ UNCHANGED counts
    /\ UNCHANGED outcome

Unchanged(stop) ==
    /\ decided' = Append(decided, "unchanged")
    /\ counts' = Bump(counts, "unchanged")
    /\ IF stop
       THEN pc' = "idle" /\ outcome' = "stopped"
       ELSE UNCHANGED << pc, outcome >>
    /\ UNCHANGED << msgfile, writes, msg, todo, kind >>

\* every record is saved as if seen for the first time
Unseen_always(m) == TRUE

\* only a live message is saved at first sight
Unseen_live(m) == ~ exists(m.id) /\ m.deletedDateTime = Null

\* if not os.path.exists(path)
Unseen(m) == ~ exists(m.id)

\* the tombstone is not looked at
Tombstoned_ignored(m) == FALSE

\* msg["deletedDateTime"] is set
Tombstoned(m) == m.deletedDateTime # Null

\* the break is taken whatever the force flag
StopScan_always(f) == TRUE

\* if not force: break
StopScan(f) == ~ f

ProcessRecord ==
    /\ pc = "scan"
    /\ pending # <<>>
    /\ LET m == Head(pending) IN
         /\ pending' = Tail(pending)
         /\ yielded' = Append(yielded, m)
         /\ IF Unseen(m)
            THEN save_msg(m, "saved")
            ELSE IF ~ Tombstoned(m)
                 THEN IF Changed(msgfile[m.id][1], m)
                      THEN save_msg(m, "updated")
                      ELSE Unchanged(StopScan(force))
                 ELSE Unchanged(FALSE)
    /\ UNCHANGED << blob, fetches, result, envVars, runs, force, chat,
                    results, getable_, noresp, requests, responses >>
    /\ UNCHANGED << nameVars, renderVars >>

\* ---------------------------------------------------------------- download_hosted_content
Key == get_hosted_content_filename(Str(msg[1].id), Head(todo))

\* content.get() returns the bytes, which are written to the file
DownloadOk ==
    /\ pc = "resolve"
    /\ fetches' = [fetches EXCEPT ![Key] = @ + 1]
    /\ result' = Some([key |-> Key, type |-> "bytes", data |-> "bytes"])
    /\ blob' = [blob EXCEPT ![Key] = Some("bytes")]
    /\ todo' = Tail(todo)
    /\ IF Tail(todo) = <<>>
       THEN /\ pc' = "scan"
            /\ msg' = None
            /\ kind' = "none"
            /\ counts' = Bump(counts, kind)
       ELSE UNCHANGED << pc, msg, kind, counts >>
    /\ UNCHANGED << msgfile, writes, envVars, cursorVars, outcome, runs, force, chat, yielded,
                    decided >>
    /\ UNCHANGED << nameVars, renderVars >>

\* content.get() raises: result = str(e); open(path, "wb") creates or truncates the
\* file and f.write(result) raises TypeError (a str written to a binary file), which
\* nothing catches: the run ends there, the downloads still queued are never made
DownloadFails ==
    /\ pc = "resolve"
    /\ fetches' = [fetches EXCEPT ![Key] = @ + 1]
    /\ result' = Some([key |-> Key, type |-> "str", data |-> "str(e)"])
    /\ blob' = [blob EXCEPT ![Key] = Some("")]
    /\ todo' = Tail(todo)
    /\ pc' = "idle"
    /\ outcome' = "aborted"
    /\ UNCHANGED << msgfile, writes, envVars, cursorVars, runs, force, chat, yielded,
                    decided, msg, kind, counts >>
    /\ UNCHANGED << nameVars, renderVars >>

\* ---------------------------------------------------------------- specification
DownloadInit ==
    /\ remote = <<>>
    /\ envSteps = 0
    /\ msgfile = [id \in MsgIds |-> None]
    /\ blob = [k \in HostedKeys |-> None]
    /\ fetches = [k \in HostedKeys |-> 0]
    /\ pc = "idle"
    /\ outcome = "none"
    /\ runs = 0
    /\ force = FALSE
    /\ chat = [lastMessagePreview |-> None]
    /\ results = None
    /\ getable_ = None
    /\ pending = <<>>
    /\ noresp = 0
    /\ requests = <<>>
    /\ responses = <<>>
    /\ yielded = <<>>
    /\ decided = <<>>
    /\ msg = None
    /\ todo = <<>>
    /\ kind = "none"
    /\ counts = NoCounts
    /\ writes = 0
    /\ result = None

\* no filename is being built
NameIdle ==
    /\ name_args = [msg_id |-> <<>>, hosted_content_id |-> <<>>]
    /\ name_download = None
    /\ name_render = None

\* no generate_html run
RenderIdle ==
    /\ files = <<>>
    /\ rpc = "idle"
    /\ chat_files = <<>>
    /\ all_chats = <<>>
    /\ written = <<>>

Init == DownloadInit /\ NameIdle /\ RenderIdle

Next ==
    \/ Post
    \/ Revise
    \/ Delete
    \/ download_messages
    \/ FetchPage
    \/ FetchNoResponse
    \/ Exhausted
    \/ ProcessRecord
    \/ DownloadOk
    \/ DownloadFails

Spec == Init /\ [][Next]_vars

\* ---------------------------------------------------------------- filenames
\* a string of n characters
NameText(n) == [i \in 1..n |-> Digits[(i % 10) + 1]]

\* message ids of 1 and of 13 characters, hosted-content ids of up to MaxIdLen
NameArgs ==
    { [msg_id |-> NameText(a), hosted_content_id |-> NameText(b)] :
        a \in { 1, 13 }, b \in 0..MaxIdLen }

\* download_hosted_content builds the filename it writes
NameInDownload ==
    /\ name_download = None
    /\ name_download' =
         Some(get_hosted_content_filename(name_args.msg_id, name_args.hosted_content_id))
    /\ UNCHANGED << name_args, name_render, downloadVars, renderVars >>

\* render_hosted_content and get_image build the filename they read
NameInRender ==
    /\ name_render = None
    /\ name_render' =
         Some(get_hosted_content_filename(name_args.msg_id, name_args.hosted_content_id))
    /\ UNCHANGED << name_args, name_download, downloadVars, renderVars >>

InitFilename ==
    /\ DownloadInit
    /\ RenderIdle
    /\ name_args \in NameArgs
    /\ name_download = None
    /\ name_render = None

NextFilename == NameInDownload \/ NameInRender

SpecFilename == InitFilename /\ [][NextFilename]_vars

\* ---------------------------------------------------------------- generate_html
\* the characters of the names below, in code point order
CodeOrder ==
    << " ", ",", ".", "/", "0", "1", "2", "3", "4", "5", "6", "7", "8", "9",
       "B", "N", "Z", "_", "a", "b", "c", "d", "e", "g", "h", "i", "j", "l", "m",
       "n", "o", "p", "s", "t", "x" >>

ord(c) == CHOOSE i \in 1..Len(CodeOrder) : CodeOrder[i] = c

\* a < b on str: by code point, a proper prefix first
RECURSIVE Less(_, _)
Less(a, b) ==
    IF b = <<>> THEN FALSE
    ELSE IF a = <<>> THEN TRUE
    ELSE IF Head(a) = Head(b) THEN Less(Tail(a), Tail(b))
    ELSE ord(Head(a)) < ord(Head(b))

Front(s) == SubSeq(s, 1, Len(s) - 1)

\* an item placed before the items of its own key
RECURSIVE Insert_before_equal(_, _)
Insert_before_equal(p, s) ==
    IF s = <<>> THEN << p >>
    ELSE IF ~ Less(Head(s)[1], p[1]) THEN << p >> \o s
    ELSE << Head(s) >> \o Insert_before_equal(p, Tail(s))

\* p = << key, item >> placed in the sorted s, behind the items of its own key
RECURSIVE Insert(_, _)
Insert(p, s) ==
    IF s = <<>> THEN << p >>
    ELSE IF Less(p[1], Head(s)[1]) THEN << p >> \o s
    ELSE << Head(s) >> \o Insert(p, Tail(s))

\* sorted(...) of << key, item >> pairs: ascending keys, stable
RECURSIVE sorted(_)
sorted(s) == IF s = <<>> THEN <<>> ELSE Insert(Last(s), sorted(Front(s)))

\* sorted(glob.glob(...)): the names of a set, ascending
RECURSIVE SortedNames(_)
SortedNames(S) ==
    IF S = {} THEN <<>>
    ELSE LET n == CHOOSE x \in S : \A y \in S \ { x } : Less(x, y)
         IN << n >> \o SortedNames(S \ { n })

\* sep.join(names)
RECURSIVE Join(_, _)
Join(sep, names) ==
    IF names = <<>> THEN <<>>
    ELSE IF Len(names) = 1 THEN names[1]
    ELSE names[1] \o sep \o Join(sep, Tail(names))

\* s.replace(old, new) for one-character old and new
Replace(s, old, new) == [i \in 1..Len(s) |-> IF s[i] = old THEN new ELSE s[i]]

NoName == << "N", "o", " ", "N", "a", "m", "e" >>

get_member_list(c) ==
    LET members == [i \in 1..Len(c.members) |->
                      IF c.members[i].displayName # <<>>
                      THEN c.members[i].displayName ELSE NoName]
        pairs == sorted([i \in 1..Len(members) |-> << members[i], members[i] >>])
    IN Join(<< ",", " " >>, [i \in 1..Len(pairs) |-> pairs[i][2]])

get_chat_name(c) ==
    IF c.topic # <<>> THEN Replace(c.topic, "/", "_") ELSE get_member_list(c)

\* a body with a placeholder whose id no attachment of the message has
DanglingContent ==
    [RichContent EXCEPT !.body = Some([RichContent.body[1] EXCEPT !.refs = << "a1", "a3" >>])]

\* the text of a stored file: JSON (json.loads returns the value) or not (it raises)
Json(v) == [json |-> Some(v)]
NotJson == [json |-> None]

DotJson == << ".", "j", "s", "o", "n" >>
DotHtml == << ".", "h", "t", "m", "l" >>
IndexHtml == << "i", "n", "d", "e", "x" >> \o DotHtml
MsgPrefix == << "m", "s", "g", "_" >>

\* paths below the output directory
SnapshotPath(id) == << "data", id \o DotJson >>
MsgPath(id, m) == << "data", id, MsgPrefix \o Str(m) \o DotJson >>
BlobPath(id, key) == << "data", id, key >>
DocName(id) == id \o DotHtml
DocPath(id) == << "html", DocName(id) >>
IndexPath == << "html", IndexHtml >>

ChatIds == { Str(n) : n \in 1..MaxChats }

AllPaths ==
    { SnapshotPath(id) : id \in ChatIds }
    \cup { MsgPath(id, m) : id \in ChatIds, m \in MsgIds }
    \cup { BlobPath(id, k) : id \in ChatIds, k \in HostedKeys }
    \cup { DocPath(id) : id \in ChatIds }
    \cup { IndexPath }

\* chat.jinja and index.jinja: the document holds what the template is given
ChatTemplate(c, member_list_str, messages) ==
    [chat |-> c, member_list_str |-> member_list_str, messages |-> messages]

IndexTemplate(chats) == [chats |-> chats]

Chat(id, topic, members) ==
    [id |-> id, topic |-> topic,
     members |-> [i \in 1..Len(members) |-> [displayName |-> members[i]]]]

Zeta == << "Z", "e", "t", "a" >>
alpha == << "a", "l", "p", "h", "a" >>
Beta == << "B", "e", "t", "a" >>

BothBlobs(m) == { get_hosted_content_filename(Str(m), h) : h \in HostedIds }

\* what the archive can hold for the conversation id: its snapshot, its message
\* files in id order and the hosted contents present
ChatShapes(id) ==
    << [snapshot |-> Json(Chat(id, Zeta, << >>)),
        msgs |-> << Json(NewMessage(1, RichContent)) >>, blobs |-> BothBlobs(1)],
       [snapshot |-> Json(Chat(id, Zeta, << >>)),
        msgs |-> << Json(NewMessage(1, PlainContent)), Json(NewMessage(2, DanglingContent)) >>,
        blobs |-> BothBlobs(1) \cup BothBlobs(2)],
       [snapshot |-> Json(Chat(id, alpha, << >>)),
        msgs |-> << >>, blobs |-> {}],
       [snapshot |-> Json(Chat(id, << "a", "/", "b" >>, << >>)),
        msgs |-> << Json(NewMessage(1, RichContent)), Json(NewMessage(2, PlainContent)) >>,
        blobs |-> BothBlobs(1) \cup BothBlobs(2)],
       [snapshot |-> Json(Chat(id, << >>, << << "a", "_", "b" >> >>)),
        msgs |-> << >>, blobs |-> {}],
       [snapshot |-> Json(Chat(id, << >>, << << "b" >>, << >>, << "B" >> >>)),
        msgs |-> << Json(NewMessage(1, RichContent)) >>, blobs |-> BothBlobs(1)],
       [snapshot |-> Json(Chat(id, Beta, << << "b" >> >>)),
        msgs |-> << >>, blobs |-> {}],
       [snapshot |-> NotJson,
        msgs |-> << >>, blobs |-> {}],
       [snapshot |-> Json(Chat(id, alpha, << >>)),
        msgs |-> << Json(NewMessage(1, RichContent)) >>,
        blobs |-> { get_hosted_content_filename(Str(1), H1) }],
       [snapshot |-> Json(Chat(id, Beta, << >>)),
        msgs |-> << NotJson >>, blobs |-> {}] >>

\* the document rendered for conversation id before it had messages
OldDoc(id) ==
    LET c == Chat(id, Zeta, << >>) IN ChatTemplate(c, get_member_list(c), << >>)

\* the files of conversation id in shape sh, with or without an earlier document
ChatFiles(id, sh, old) ==
    [p \in { SnapshotPath(id) } |-> Some(sh.snapshot)]
    @@ [p \in { MsgPath(id, m) : m \in DOMAIN sh.msgs } |->
          Some(sh.msgs[CHOOSE m \in DOMAIN sh.msgs : MsgPath(id, m) = p])]
    @@ [p \in { BlobPath(id, k) : k \in sh.blobs } |-> Some("bytes")]
    @@ [p \in (IF old THEN { DocPath(id) } ELSE {}) |-> Some(OldDoc(id))]

\* an output directory with conversations 1..n, conversation c in shape pick[c]
RECURSIVE ArchiveFiles(_, _, _)
ArchiveFiles(n, pick, old) ==
    IF n = 0
    THEN [p \in (IF old THEN { IndexPath } ELSE {}) |-> Some(IndexTemplate(<< >>))]
         @@ [p \in AllPaths |-> None]
    ELSE ChatFiles(Str(n), ChatShapes(Str(n))[pick[n]], old) @@ ArchiveFiles(n - 1, pick, old)

EndsWith(s, suffix) ==
    Len(s) >= Len(suffix) /\ SubSeq(s, Len(s) - Len(suffix) + 1, Len(s)) = suffix

\* glob.glob(os.path.join(dir, "*.json")) for dir = data, or pattern msg_*.json
\* for a conversation's directory: the names that match
Glob(dir, prefix) ==
    { p[Len(p)] : p \in { q \in DOMAIN files :
                             /\ files[q] # None
                             /\ Front(q) = dir
                             /\ Len(q[Len(q)]) >= Len(prefix) + Len(DotJson)
                             /\ SubSeq(q[Len(q)], 1, Len(prefix)) = prefix
                             /\ EndsWith(q[Len(q)], DotJson) } }

\* open(path).read()
Read(path) == files[path][1]

render_hosted_content(m, hosted_content_id, chat_dir) ==
    Read(chat_dir \o << get_hosted_content_filename(Str(m.id), hosted_content_id) >>)

get_attachment(m, r, chat_dir) ==
    LET attachment == Matching(m, r)[1] IN
    IF attachment.contentType = CodeSnippet
    THEN [kind |-> "hosted-content", id |-> attachment.id,
          data |-> Some(render_hosted_content(m, get_hosted_content_id(attachment), chat_dir))]
    ELSE [kind |-> attachment.contentType, id |-> attachment.id, data |-> None]

get_image(m, url, chat_dir) ==
    IF url.prefix = GraphPrefix
    THEN [url |-> url,
          data |-> Some(Read(chat_dir \o << get_hosted_content_filename(Str(m.id), SecondLast(url)) >>))]
    ELSE [url |-> url, data |-> None]

\* the same, a placeholder without attachment being skipped
BodyRaises_skipping(m, chat_dir) ==
    /\ m.body # None
    /\ \E k \in RenderReads(m) : files[chat_dir \o << k >>] = None

\* render_message_body raises: a placeholder selects no attachment (IndexError)
\* or a file it opens does not exist (FileNotFoundError)
BodyRaises(m, chat_dir) ==
    /\ m.body # None
    /\ \/ \E i \in 1..Len(m.body[1].refs) : Matching(m, m.body[1].refs[i]) = <<>>
       \/ \E k \in RenderReads(m) : files[chat_dir \o << k >>] = None

\* the fragment, the placeholders without attachment left out
Fragment(m, chat_dir) ==
    LET b == m.body[1]
        found == SelectSeq(b.refs, LAMBDA r : Matching(m, r) # <<>>)
    IN [attachments |-> [i \in 1..Len(found) |-> get_attachment(m, found[i], chat_dir)],
        images |-> [i \in 1..Len(b.srcs) |-> get_image(m, b.srcs[i], chat_dir)]]

\* raised, or the value returned: None or the fragment
render_message_body(m, chat_dir) ==
    IF m.body = None THEN [raised |-> FALSE, content |-> None]
    ELSE IF BodyRaises(m, chat_dir) THEN [raised |-> TRUE, content |-> None]
    ELSE [raised |-> FALSE, content |-> Some(Fragment(m, chat_dir))]

ChatDir(c) == << "data", c.id >>

\* render_chat: the message files of the conversation, sorted
messages_files(c) == SortedNames(Glob(ChatDir(c), MsgPrefix))

\* render_chat raises before it opens the document
ChatRaises(c) ==
    \E i \in 1..Len(messages_files(c)) :
      LET text == Read(ChatDir(c) \o << messages_files(c)[i] >>) IN
        IF text.json = None THEN TRUE
        ELSE render_message_body(text.json[1], ChatDir(c)).raised

\* render_chat: the document it writes
ChatDoc(c) ==
    ChatTemplate(c, get_member_list(c),
                 [i \in 1..Len(messages_files(c)) |->
                    LET m == Read(ChatDir(c) \o << messages_files(c)[i] >>).json[1]
                    IN [obj |-> m, content |-> render_message_body(m, ChatDir(c)).content]])

\* the document written over the conversation's snapshot
html_path_in_data(id) == SnapshotPath(id)

\* where render_chat writes the document of conversation id
html_path(id) == DocPath(id)

\* render_all up to its loop
render_all ==
    /\ rpc = "idle"
    /\ rpc' = "loop"
    /\ all_chats' = <<>>
    /\ chat_files' = SortedNames(Glob(<< "data" >>, <<>>))
    /\ written' = <<>>
    /\ UNCHANGED << files, downloadVars, nameVars >>

\* one turn of the loop in which render_chat returns
render_chat ==
    /\ rpc = "loop"
    /\ chat_files # <<>>
    /\ Read(<< "data", Head(chat_files) >>).json # None
    /\ LET c == Read(<< "data", Head(chat_files) >>).json[1] IN
         /\ ~ ChatRaises(c)
         /\ files' = [files EXCEPT ![html_path(c.id)] = Some(ChatDoc(c))]
         /\ written' = Append(written, html_path(c.id))
         /\ all_chats' = Append(all_chats, [filename |-> DocName(c.id),
                                            chat_name |-> get_chat_name(c)])
    /\ chat_files' = Tail(chat_files)
    /\ UNCHANGED << rpc, downloadVars, nameVars >>

\* the turn is left out and the loop goes on
render_chat_skipped ==
    /\ rpc = "loop"
    /\ chat_files # <<>>
    /\ IF Read(<< "data", Head(chat_files) >>).json = None THEN TRUE
       ELSE ChatRaises(Read(<< "data", Head(chat_files) >>).json[1])
    /\ chat_files' = Tail(chat_files)
    /\ UNCHANGED << files, rpc, all_chats, written, downloadVars, nameVars >>

\* one turn of the loop in which json.loads or render_chat raises: nothing
\* catches it, generate_html ends
render_chat_raises ==
    /\ rpc = "loop"
    /\ chat_files # <<>>
    /\ IF Read(<< "data", Head(chat_files) >>).json = None THEN TRUE
       ELSE ChatRaises(Read(<< "data", Head(chat_files) >>).json[1])
    /\ rpc' = "raised"
    /\ UNCHANGED << files, chat_files, all_chats, written, downloadVars, nameVars >>

\* the index entries, sorted by chat_name
SortedChats(chats) ==
    LET pairs == sorted([i \in 1..Len(chats) |-> << chats[i].chat_name, chats[i] >>])
    IN [i \in 1..Len(pairs) |-> pairs[i][2]]

\* render_all after its loop
write_index ==
    /\ rpc = "loop"
    /\ chat_files = <<>>
    /\ files' = [files EXCEPT ![IndexPath] = Some(IndexTemplate(SortedChats(all_chats)))]
    /\ written' = Append(written, IndexPath)
    /\ all_chats' = SortedChats(all_chats)
    /\ rpc' = "done"
    /\ UNCHANGED << chat_files, downloadVars, nameVars >>

InitRender ==
    /\ DownloadInit
    /\ NameIdle
    /\ rpc = "idle"
    /\ chat_files = <<>>
    /\ all_chats = <<>>
    /\ written = <<>>
    /\ \E n \in 0..MaxChats, old \in BOOLEAN :
         \E pick \in [1..n -> 1..Len(ChatShapes(Str(1)))] :
           files = ArchiveFiles(n, pick, old)

NextRender ==
    \/ render_all
    \/ render_chat
    \/ render_chat_raises
    \/ write_index

SpecRender == InitRender /\ [][NextRender]_vars

\* a new message appears between two runs
PostBetweenRuns == pc = "idle" /\ Post

\* unforced runs that all run to completion, over a feed that only grows at its
\* head between runs, the chat record naming the newest message
NextConverge ==
    \/ PostBetweenRuns
    \/ download_newest
    \/ FetchPage
    \/ FetchNoResponse
    \/ Exhausted
    \/ ProcessRecord
    \/ DownloadOk

SpecConverge == Init /\ [][NextConverge]_vars

\* ---------------------------------------------------------------- properties
\* a step that takes the next feed record from the cursor and processes it
Takes == pc = "scan" /\ pending # <<>> /\ yielded' = Append(yielded, Head(pending))

\* the record it takes, and the stored record of the same id
Taken == Head(pending)
Stored == msgfile[Taken.id]

\* the step counts its record under k: at once, or once its downloads are done
Counted(k) == counts' = Bump(counts, k) \/ (pc' = "resolve" /\ kind' = k /\ counts' = counts)

\* the run is over
RunOver == pc = "idle" /\ outcome # "none"

\* C1: a tombstoned feed record whose local record exists leaves the store as it
\* is (no write of the record, no hosted-content download) and is counted as
\* unchanged, with and without force.
C1_TombstoneSafety ==
    [][(Takes /\ Taken.deletedDateTime # Null /\ Stored # None)
          => /\ msgfile' = msgfile
             /\ writes' = writes
             /\ blob' = blob
             /\ fetches' = fetches
             /\ pc' # "resolve"
             /\ counts' = Bump(counts, "unchanged")]_vars

\* C1 witness: the record taken last is a tombstone, it was counted as unchanged
\* and the stored record of that message is still the copy from before the deletion.
C1_Witness ==
    /\ yielded # <<>>
    /\ Last(yielded).deletedDateTime # Null
    /\ counts.unchanged = 1
    /\ counts.saved = 0
    /\ writes = 0
    /\ msgfile[Last(yielded).id] # None
    /\ msgfile[Last(yielded).id][1].deletedDateTime = Null
    /\ Markers(msgfile[Last(yielded).id][1]) # Markers(Last(yielded))

\* C2: a non-tombstoned feed record whose local record exists overwrites it iff
\* the marker pairs differ (counted as updated); with equal pairs the store is
\* untouched (counted as unchanged). With and without force.
C2_RevisionRule ==
    [][(Takes /\ Taken.deletedDateTime = Null /\ Stored # None)
          => IF Markers(Stored[1]) # Markers(Taken)
             THEN /\ msgfile' = [msgfile EXCEPT ![Taken.id] = Some(Taken)]
                  /\ writes' = writes + 1
                  /\ Counted("updated")
             ELSE /\ msgfile' = msgfile
                  /\ writes' = writes
                  /\ blob' = blob
                  /\ counts' = Bump(counts, "unchanged")]_vars

\* C2 witness: one scan has overwritten a record whose markers differed in one
\* marker only and has left alone a record whose markers were equal.
C2_Witness ==
    /\ counts.updated = 1
    /\ counts.unchanged = 1
    /\ counts.saved = 0
    /\ writes = 1
    /\ \A i \in 1..Len(yielded) : yielded[i].deletedDateTime = Null
    /\ \E i \in 1..Len(yielded) :
         /\ yielded[i].lastModifiedDateTime = 1
         /\ yielded[i].lastEditedDateTime # Null
         /\ msgfile[yielded[i].id] = Some(yielded[i])

\* the records of the pages delivered so far, in order
RECURSIVE Delivered(_)
Delivered(rs) ==
    IF rs = <<>> THEN <<>>
    ELSE (IF Head(rs) = None THEN <<>> ELSE Head(rs)[1].value) \o Delivered(Tail(rs))

\* the i-th record of the scan was counted as unchanged and is not the last one taken
FollowedUnchanged(i) == i < Len(yielded) /\ decided[i] = "unchanged"

\* C3 as stated: a forced scan is never stopped and, once the feed is exhausted,
\* has processed every record delivered; an unforced scan takes no record after
\* one it counted as unchanged.
C3_Original ==
    /\ force => outcome # "stopped"
    /\ (force /\ outcome = "exhausted") => yielded = Delivered(responses)
    /\ ~ force => \A i \in 1..Len(yielded) : ~ FollowedUnchanged(i)

\* C3 amended: a forced scan is never stopped by an unchanged record: it ends at
\* feed exhaustion, every delivered record processed, or on an error. An unforced
\* scan stops at the first non-tombstoned record it counts as unchanged and takes no
\* record after it; a tombstoned record counted as unchanged does not stop it.
C3_EarlyStop ==
    /\ force => outcome # "stopped"
    /\ (force /\ RunOver) => outcome \in {"fast", "exhausted", "aborted"}
    /\ (force /\ outcome = "exhausted") => yielded = Delivered(responses)
    /\ ~ force => \A i \in 1..Len(yielded) :
                     FollowedUnchanged(i) => yielded[i].deletedDateTime # Null
    /\ (~ force /\ decided # <<>> /\ Last(decided) = "unchanged"
           /\ Last(yielded).deletedDateTime = Null)
          => (pc = "idle" /\ outcome = "stopped")
    /\ outcome = "stopped" => (~ force /\ Last(decided) = "unchanged")

\* C3 witness: an unforced scan went past a tombstoned record it counted as
\* unchanged and stopped at the next, non-tombstoned, unchanged record.
C3_Witness ==
    /\ ~ force
    /\ outcome = "stopped"
    /\ decided = << "unchanged", "unchanged" >>
    /\ yielded[1].deletedDateTime # Null
    /\ yielded[2].deletedDateTime = Null

\* C4: a run takes the fast path (no feed request, no record or blob written)
\* exactly when it is unforced, the preview carries a message id and that
\* message's record exists; every other run requests the feed.
C4_FastPath ==
    /\ [][runs' = runs + 1
           => IF ~ force' /\ chat'.lastMessagePreview # None
                 /\ msgfile[chat'.lastMessagePreview[1]] # None
              THEN /\ pc' = "idle" /\ outcome' = "fast"
                   /\ requests' = <<>> /\ writes' = 0
                   /\ msgfile' = msgfile /\ blob' = blob /\ fetches' = fetches
              ELSE /\ pc' = "scan" /\ outcome' = "none"
                   /\ getable_' # None /\ pending' = <<>>]_vars
    /\ [](outcome = "fast" => (requests = <<>> /\ writes = 0 /\ yielded = <<>>))
    /\ [](outcome \in {"exhausted", "stopped", "aborted"} => requests # <<>>)

\* C4 witness: an unforced run whose preview names a stored message ended on the
\* fast path while the feed held a message with no local record.
C4_Witness ==
    /\ outcome = "fast"
    /\ ~ force
    /\ chat.lastMessagePreview # None
    /\ msgfile[chat.lastMessagePreview[1]] # None
    /\ \E i \in 1..Len(remote) : msgfile[remote[i].id] = None

\* C5 as stated: a hosted content is fetched from the remote side only if it was
\* never fetched before and its local key does not exist.
C5_Original ==
    [][\A k \in HostedKeys :
          fetches'[k] # fetches[k] => (fetches[k] = 0 /\ blob[k] = None)]_vars

\* C6 as stated: a failed fetch leaves the failure's description as the blob
\* and the run goes on.
C6_Original ==
    (result # None /\ result[1].type = "str")
    => (blob[result[1].key] = Some(result[1].data) /\ outcome # "aborted")

\* C7 as stated: a request answered with no response is the last request of the
\* cursor.
C7_Original ==
    \A i \in 1..Len(responses) : responses[i] = None => i = Len(requests)

\* C8: when every page request gets a response, the first request is the initial
\* one, each later request is the next-page link of the page before it, no page
\* is requested twice, the records yielded and still to yield are the pages'
\* records in order, and the cursor ends after the first page without a link.
C8_Pagination ==
    (\A i \in 1..Len(responses) : responses[i] # None)
    => /\ Len(responses) = Len(requests)
       /\ requests # <<>> => requests[1] = 0
       /\ \A i \in 1..(Len(requests) - 1) :
            /\ responses[i][1].nextLink # NoLink
            /\ requests[i + 1] = responses[i][1].nextLink
       /\ \A i, j \in 1..Len(requests) : i # j => requests[i] # requests[j]
       /\ yielded \o pending = Delivered(responses)
       /\ outcome = "exhausted"
            => /\ requests # <<>>
               /\ Last(responses)[1].nextLink = NoLink
               /\ yielded = Delivered(responses)

\* C8 witness: a scan of two pages, both answered, ran to exhaustion and yielded
\* the records of both.
C8_Witness ==
    /\ outcome = "exhausted"
    /\ Len(requests) = 2
    /\ \A i \in 1..Len(responses) : responses[i] # None
    /\ Len(yielded) = 2
    /\ yielded = responses[1][1].value \o responses[2][1].value

\* C9 as stated: a tombstoned feed record with no local record writes nothing.
C9_Original ==
    [][(Takes /\ Taken.deletedDateTime # Null /\ Stored = None)
          => (msgfile' = msgfile /\ writes' = writes)]_vars

\* C9 amended: a tombstoned feed record with no local record is written like
\* any unseen record and counted as saved.
C9_TombstonedUnseenSaved ==
    [][(Takes /\ Taken.deletedDateTime # Null /\ Stored = None)
          => /\ msgfile' = [msgfile EXCEPT ![Taken.id] = Some(Taken)]
             /\ writes' = writes + 1
             /\ Counted("saved")]_vars

\* C9 witness: the record taken last is a tombstone, it was saved and is the
\* stored record.
C9_Witness ==
    /\ yielded # <<>>
    /\ Last(yielded).deletedDateTime # Null
    /\ Last(decided) = "saved"
    /\ msgfile[Last(yielded).id] = Some(Last(yielded))

\* C10 as stated: outside save_msg (back in the loop, or the run over) no
\* download of a written record is left undone.
C10_Original ==
    pc # "resolve" => (todo = <<>> /\ (pc = "scan" => msg = None))

\* the records of this scan that took branch k
Count(k) == Cardinality({ i \in 1..Len(decided) : decided[i] = k })

\* C17 as stated: once a record is processed (the loop is back at its head, or
\* the scan is over) each counter holds the number of records that took its
\* branch, so the three add up to the number of records processed.
C17_Original ==
    pc # "resolve"
    => /\ counts.saved = Count("saved")
       /\ counts.updated = Count("updated")
       /\ counts.unchanged = Count("unchanged")
       /\ counts.saved + counts.updated + counts.unchanged = Len(yielded)

\* C18: no step removes a message record or a hosted-content blob, and a stored
\* record changes only when a non-tombstoned feed record with different markers
\* overwrites it.
C18_ArchiveMonotone ==
    [][/\ \A id \in MsgIds : msgfile[id] # None => msgfile'[id] # None
       /\ \A k \in DOMAIN blob : blob[k] # None => blob'[k] # None
       /\ \A id \in MsgIds :
            (msgfile[id] # None /\ msgfile'[id] # msgfile[id])
            => /\ Takes
               /\ Taken.id = id
               /\ Taken.deletedDateTime = Null
               /\ Markers(msgfile[id][1]) # Markers(Taken)
               /\ msgfile'[id] = Some(Taken)]_vars

\* C18 witness: a second run has overwritten one stored record by a revision and
\* passed over another; every message still has its record.
C18_Witness ==
    /\ runs = 2
    /\ pc = "idle"
    /\ Count("updated") = 1
    /\ Count("unchanged") = 1
    /\ Count("saved") = 0
    /\ \A id \in MsgIds : msgfile[id] # None

DistinctIds(s) == \A i, j \in 1..Len(s) : i # j => s[i].id # s[j].id

\* C16: after a forced scan that exhausted a feed of pairwise distinct ids every
\* delivered id has a local record, and the stored markers of every
\* non-tombstoned delivered record are the delivered ones.
C16_ForcedComplete ==
    (force /\ outcome = "exhausted" /\ DistinctIds(Delivered(responses)))
    => \A i \in 1..Len(Delivered(responses)) :
         LET r == Delivered(responses)[i] IN
           /\ msgfile[r.id] # None
           /\ r.deletedDateTime = Null => Markers(msgfile[r.id][1]) = Markers(r)

\* C16 witness: a forced scan of two distinct messages ran to exhaustion and
\* updated one record whose edit marker alone had changed.
C16_Witness ==
    /\ force
    /\ outcome = "exhausted"
    /\ Len(yielded) = 2
    /\ DistinctIds(Delivered(responses))
    /\ \E i \in 1..Len(yielded) :
         /\ decided[i] = "updated"
         /\ yielded[i].lastModifiedDateTime = 1
         /\ yielded[i].lastEditedDateTime # Null

\* a step that ends a run: the fast path, feed exhaustion, the break or an error
EndsRun == pc' = "idle" /\ (pc # "idle" \/ runs' # runs)

\* C15: under SpecConverge every run ends with a local record for every
\* message of the feed.
C15_Converges ==
    [][EndsRun => \A i \in 1..Len(remote') : msgfile'[remote'[i].id] # None]_vars

\* C15 witness: a second unforced run saved the message posted after the first
\* run and stopped at the older, unchanged one.
C15_Witness ==
    /\ runs = 2
    /\ ~ force
    /\ outcome = "stopped"
    /\ decided = << "saved", "unchanged" >>
    /\ \A i \in 1..Len(remote) : msgfile[remote[i].id] # None

\* the last download run returned normally
ReturnedNormally == pc = "idle" /\ outcome \in { "fast", "exhausted", "stopped" }

\* C14 as stated: once a run has returned normally, every hosted content that
\* rendering reads for a stored message is in the local store.
C14_Original ==
    ReturnedNormally
    => \A id \in MsgIds :
         msgfile[id] # None => \A k \in RenderReads(msgfile[id][1]) : blob[k] # None

\* "hosted_content_<m>_<h>" for the ids the filename is built from
NameWanted == FullName(name_args.msg_id, name_args.hosted_content_id)

\* r is the prefix of NameWanted of length min(255, full length)
IsCutName(r) ==
    /\ Len(r) = (IF Len(NameWanted) < 255 THEN Len(NameWanted) ELSE 255)
    /\ \A i \in 1..Len(r) : r[i] = NameWanted[i]

\* C11: the filename is the prefix of "hosted_content_<m>_<h>" of length
\* min(255, full length), of exactly 255 characters when the full name is
\* longer, and download and rendering build the same filename.
C11_FilenameSafety ==
    /\ name_download # None => IsCutName(name_download[1])
    /\ name_render # None => IsCutName(name_render[1])
    /\ (name_download # None /\ Len(NameWanted) > 255) => Len(name_download[1]) = 255
    /\ (name_download # None /\ name_render # None) => name_download = name_render

\* C11 witness: a full name longer than 255 characters, cut in download and in
\* rendering.
C11_Witness ==
    /\ Len(NameWanted) > 255
    /\ name_download # None
    /\ name_render # None
    /\ Len(name_render[1]) = 255

Range(s) == { s[i] : i \in 1..Len(s) }

\* the conversation snapshots in the archive, by file name
Snapshots == Glob(<< "data" >>, <<>>)

\* the conversation id a snapshot file is named after
IdOf(name) == SubSeq(name, 1, Len(name) - Len(DotJson))

\* the entries of the index document
Index == files[IndexPath][1].chats

\* C12: the index written by render_all has exactly one entry per conversation
\* snapshot, each with the conversation's display name, in ascending
\* case-sensitive order of the display names, entries of equal display name in
\* the order of their snapshot files.
C12_IndexOrdering ==
    rpc = "done"
    => /\ Len(Index) = Cardinality(Snapshots)
       /\ \A s \in Snapshots :
            \E i \in 1..Len(Index) :
              /\ Index[i].filename = IdOf(s) \o DotHtml
              /\ LET c == files[<< "data", s >>][1].json[1] IN
                   Index[i].chat_name =
                     (IF c.topic # <<>> THEN Replace(c.topic, "/", "_") ELSE get_member_list(c))
       /\ \A i, j \in 1..Len(Index) :
            i < j => /\ ~ Less(Index[j].chat_name, Index[i].chat_name)
                     /\ Index[i].chat_name = Index[j].chat_name
                        => Less(Index[i].filename, Index[j].filename)

\* C12 witness: conversations named Zeta, alpha and Beta, in this file order,
\* are listed as Beta, Zeta, alpha.
C12_Witness ==
    /\ rpc = "done"
    /\ [i \in 1..Len(Index) |-> Index[i].chat_name] = << Beta, Zeta, alpha >>
    /\ [i \in 1..Len(Index) |-> Index[i].filename] = << DocName(Str(3)), DocName(Str(1)), DocName(Str(2)) >>

\* C13: index.html is written only by a run that has written the document of
\* every conversation snapshot and has not raised; a run that raised has not
\* written it.
C13_IndexLast ==
    [][/\ (\/ files'[IndexPath] # files[IndexPath]
            \/ (Len(written') > Len(written) /\ Last(written') = IndexPath))
           => /\ rpc' = "done"
              /\ \A s \in Snapshots : << "html", IdOf(s) \o DotHtml >> \in Range(written)
       /\ rpc' = "raised" => (files'[IndexPath] = files[IndexPath] /\ IndexPath \notin Range(written'))]_vars

\* C13 witness: a run wrote two documents and then the index.
C13_Witness ==
    /\ rpc = "done"
    /\ Cardinality(Snapshots) = 2
    /\ Len(written) = 3
    /\ Last(written) = IndexPath

\* C19: a step of generate_html changes no file under data, changes and writes
\* only the documents of conversation snapshots and the index under html, and
\* issues no remote request.
C19_ReadOnly ==
    [][/\ \A p \in DOMAIN files :
            files'[p] # files[p]
            => /\ p[1] = "html"
               /\ \/ p = << "html", IndexHtml >>
                  \/ \E s \in Snapshots : p = << "html", IdOf(s) \o DotHtml >>
       /\ \A p \in Range(written') :
            /\ p[1] = "html"
            /\ \/ p = << "html", IndexHtml >>
               \/ \E s \in Snapshots : p = << "html", IdOf(s) \o DotHtml >>
       /\ requests' = requests
       /\ fetches' = fetches]_vars

\* C19 witness: a run over an archive with message records and hosted contents
\* wrote documents and the index.
C19_Witness ==
    /\ rpc = "done"
    /\ Len(written) >= 2
    /\ \E p \in DOMAIN files : Len(p) = 3 /\ files[p] # None /\ EndsWith(p[3], DotJson)
    /\ \E p \in DOMAIN files : Len(p) = 3 /\ files[p] # None /\ ~ EndsWith(p[3], DotJson)

\* the message records of the conversation the loop is at that have a
\* placeholder whose id none of the message's attachments has
DanglingHere ==
    LET snap == files[<< "data", Head(chat_files) >>][1] IN
    IF snap.json = None THEN {}
    ELSE { p \in DOMAIN files :
             /\ Len(p) = 3
             /\ p[2] = snap.json[1].id
             /\ files[p] # None
             /\ EndsWith(p[3], DotJson)
             /\ IF files[p][1].json = None THEN FALSE
                ELSE LET m == files[p][1].json[1] IN
                     /\ m.body # None
                     /\ \E i \in 1..Len(m.body[1].refs) :
                          \A k \in 1..Len(m.attachments) :
                            m.attachments[k].id # m.body[1].refs[i] }

\* C20: render_message_body raises for a message with a placeholder whose id
\* none of its attachments has, and the turn of the loop that meets such a
\* message ends the run with every file, the conversation's document
\* included, as it was.
C20_MissingAttachment ==
    [][(rpc = "loop" /\ chat_files # <<>> /\ DanglingHere # {})
       => /\ \A p \in DanglingHere :
               LET r == render_message_body(files[p][1].json[1], << "data", p[2] >>)
               IN r.raised /\ r.content = None
          /\ rpc' = "raised"
          /\ files' = files]_vars

\* C20 witness: the run raised at a conversation that has such a message and
\* an earlier document.
C20_Witness ==
    /\ rpc = "raised"
    /\ chat_files # <<>>
    /\ DanglingHere # {}
    /\ files[<< "html", IdOf(Head(chat_files)) \o DotHtml >>] # None

====
